---- MODULE Spec2Model ----
(***************************************************************************)
(* The two-stage image processing pipeline of the Visually Impaired        *)
(* Assistant API: app/services/image_processing.py (the orchestrator, the  *)
(* prompt registry and the model gateway), app/api/endpoints/processing.py *)
(* (the entry points) and app/models/image_processing.py (the persisted    *)
(* record).                                                                *)
(***************************************************************************)
EXTENDS Integers, Sequences, FiniteSets, TLC

\* Python None / SQL NULL
None == "None"

\* Number of requests (runs of an entry point) in one behaviour
MaxRequests == 2

---------------------------------------------------------------------------
(* app/models/image_processing.py                                          *)

PENDING == "pending"
PROCESSING == "processing"
COMPLETED == "completed"
FAILED == "failed"
ProcessingStatus == {PENDING, PROCESSING, COMPLETED, FAILED}

\* Members of the ProcessingMode enumeration, written by their qualified
\* names: a member is a different object from the string that is its value.
DESCRIPTION == "ProcessingMode.DESCRIPTION"
OCR == "ProcessingMode.OCR"
SCENE_ANALYSIS == "ProcessingMode.SCENE_ANALYSIS"
DOCUMENT_READING == "ProcessingMode.DOCUMENT_READING"
ACCESSIBILITY == "ProcessingMode.ACCESSIBILITY"
CUSTOM == "ProcessingMode.CUSTOM"
CURRENCY_RECOGNITION == "ProcessingMode.CURRENCY_RECOGNITION"
COLOR_ANALYSIS == "ProcessingMode.COLOR_ANALYSIS"
OBJECT_RECOGNITION == "ProcessingMode.OBJECT_RECOGNITION"
FACE_RECOGNITION == "ProcessingMode.FACE_RECOGNITION"
PRODUCT_IDENTIFICATION == "ProcessingMode.PRODUCT_IDENTIFICATION"
HAZARD_DETECTION == "ProcessingMode.HAZARD_DETECTION"
TRANSPORT_INFORMATION == "ProcessingMode.TRANSPORT_INFORMATION"
MEDICINE_IDENTIFICATION == "ProcessingMode.MEDICINE_IDENTIFICATION"
EMOTIONAL_ANALYSIS == "ProcessingMode.EMOTIONAL_ANALYSIS"
IMAGE_COMPARISON == "ProcessingMode.IMAGE_COMPARISON"
DOCUMENT_SUMMARIZATION == "ProcessingMode.DOCUMENT_SUMMARIZATION"
AUDIO_DESCRIPTION == "ProcessingMode.AUDIO_DESCRIPTION"

StandardModes ==
    {DESCRIPTION, OCR, SCENE_ANALYSIS, DOCUMENT_READING, ACCESSIBILITY}

SpecializedModes ==
    {CURRENCY_RECOGNITION, COLOR_ANALYSIS, OBJECT_RECOGNITION,
     FACE_RECOGNITION, PRODUCT_IDENTIFICATION, HAZARD_DETECTION,
     TRANSPORT_INFORMATION, MEDICINE_IDENTIFICATION, EMOTIONAL_ANALYSIS,
     IMAGE_COMPARISON, DOCUMENT_SUMMARIZATION, AUDIO_DESCRIPTION}

ProcessingMode == StandardModes \cup {CUSTOM} \cup SpecializedModes

\* A fresh ProcessingResult: every column the constructor is not given is NULL
ProcessingResult(image_id, status, mode, custom_prompt) ==
    [image_id |-> image_id, status |-> status, mode |-> mode,
     custom_prompt |-> custom_prompt, prompt_template |-> None,
     vlm_provider |-> None, vlm_model |-> None, vlm_response |-> None,
     vlm_processing_time |-> None,
     llm_provider |-> None, llm_model |-> None, llm_response |-> None,
     llm_processing_time |-> None,
     final_output |-> None, confidence_score |-> None,
     error_message |-> None]

---------------------------------------------------------------------------
(* app/services/image_processing.py: the prompt registry                   *)

\* The slot of a rewrite template
Slot == "{vlm_description}"

\* A rewrite template is the sequence of its pieces: literal text and slots
Template(head) == <<head, "Image description:", Slot, "Provide your response.">>

\* self.prompt_templates: the five standard modes are registered under the
\* enumeration member, the twelve specialized ones under a plain string
prompt_templates ==
    (DESCRIPTION :> [vlm |-> "Describe this image in detail.",
                     llm |-> Template("You are an assistant for visually impaired people.")])
 @@ (OCR :> [vlm |-> "Read and extract all text visible in this image.",
             llm |-> Template("Help the user understand the text.")])
 @@ (SCENE_ANALYSIS :> [vlm |-> "Analyze this scene in detail.",
                        llm |-> Template("Create a structured description.")])
 @@ (DOCUMENT_READING :> [vlm |-> "This image contains a document.",
                          llm |-> Template("Present the document content.")])
 @@ (ACCESSIBILITY :> [vlm |-> "Describe this image for a visually impaired person.",
                       llm |-> Template("You are an accessibility assistant.")])
 @@ ("currency_recognition" :> [vlm |-> "Identify currency.",
                                llm |-> Template("Currency identification assistant.")])
 @@ ("color_analysis" :> [vlm |-> "Analyze colors.",
                          llm |-> Template("Color description assistant.")])
 @@ ("object_recognition" :> [vlm |-> "Identify objects and spatial relationships.",
                              llm |-> Template("Spatial navigation assistant.")])
 @@ ("face_recognition" :> [vlm |-> "Identify people and faces.",
                            llm |-> Template("Social context assistant.")])
 @@ ("product_identification" :> [vlm |-> "Identify a product.",
                                  llm |-> Template("Product identification assistant.")])
 @@ ("hazard_detection" :> [vlm |-> "Identify potential hazards.",
                            llm |-> Template("Safety assistant.")])
 @@ ("transport_information" :> [vlm |-> "Identify public transportation information.",
                                 llm |-> Template("Transit assistant.")])
 @@ ("medicine_identification" :> [vlm |-> "Identify medication.",
                                   llm |-> Template("Medication identification assistant.")])
 @@ ("emotional_analysis" :> [vlm |-> "Identify the emotions of people.",
                              llm |-> Template("Emotional context assistant.")])
 @@ ("image_comparison" :> [vlm |-> "Compare these two images.",
                            llm |-> Template("Image comparison assistant.")])
 @@ ("document_summarization" :> [vlm |-> "Analyze this document image.",
                                  llm |-> Template("Document summarization assistant.")])
 @@ ("audio_description" :> [vlm |-> "Create an audio description of this image.",
                             llm |-> Template("Audio description assistant.")])

\* self.prompt_templates[mode] raises KeyError for a key that is not there
Registered(mode) == mode \in DOMAIN prompt_templates

\* str(KeyError(mode)) is repr(mode)
KeyErrorMessage(mode) == "KeyError " \o mode

\* Variant: the template is passed on with its slot unfilled
Format_KeepsSlot(template, v) == template

\* Variant: a template without the slot yields no prompt
Format_RequiresSlot(template, v) ==
    IF \E i \in DOMAIN template : template[i] = Slot
    THEN [i \in DOMAIN template |-> IF template[i] = Slot THEN v ELSE template[i]]
    ELSE <<>>

\* template.format(vlm_description=v): every slot is replaced by v
Format(template, v) ==
    [i \in DOMAIN template |-> IF template[i] = Slot THEN v ELSE template[i]]

---------------------------------------------------------------------------
(* app/core/config.py and the model gateway                                *)

Providers == {"openai", "google", "huggingface"}

\* A provider name the gateway does not support
Unsupported == "azure"

VISION_MODEL_NAME == "gpt-4-vision-preview"
LLM_MODEL_NAME == "gpt-4-turbo"

\* The settings the singleton service is built from. The key of a provider
\* that neither stage selects is never read and is left unset.
Settings ==
    {s \in [VISION_MODEL_PROVIDER : Providers \cup {Unsupported},
            LLM_PROVIDER : Providers \cup {Unsupported},
            OPENAI_API_KEY : {None, "sk-openai"},
            GOOGLE_API_KEY : {None, "google-key"},
            HUGGINGFACE_API_KEY : {None, "hf-key"}] :
        LET selected == {s.VISION_MODEL_PROVIDER, s.LLM_PROVIDER}
        IN /\ "openai" \notin selected => s.OPENAI_API_KEY = None
           /\ "google" \notin selected => s.GOOGLE_API_KEY = None
           /\ "huggingface" \notin selected => s.HUGGINGFACE_API_KEY = None}

\* What the world does to an outbound call or a file read
Env == {"ok", "http_error", "timeout", "unreadable"}

\* The outcome of a gateway operation: what it returned or raised, and how
\* many outbound network calls it made
NoResult == [ok |-> FALSE, value |-> None, requests |-> 0]
Raise(msg, requests) == [ok |-> FALSE, value |-> msg, requests |-> requests]
Return(text, requests) == [ok |-> TRUE, value |-> text, requests |-> requests]

\* The content a 200 response of the vision provider carries for an image
VlmContent(image_id) == "vision text for image " \o ToString(image_id)

\* The text of a prompt held as its pieces
RECURSIVE Text(_)
Text(pieces) ==
    IF pieces = <<>> THEN "" ELSE Head(pieces) \o " " \o Text(Tail(pieces))

\* The content a 200 response of the language provider carries for a prompt
LlmContent(prompt) == "rewrite of: " \o Text(prompt)

\* _process_with_openai_vlm: read the file, post once, wrap every failure
process_with_openai_vlm(image_id, prompt, env) ==
    CASE env = "unreadable" ->
           Raise("Error processing with OpenAI VLM: No such file or directory", 0)
      [] env = "timeout" ->  \* str() of the client's timeout error is empty
           Raise("Error processing with OpenAI VLM: ", 1)
      [] env = "http_error" ->
           Raise("Error processing with OpenAI VLM: OpenAI API error: Unknown error", 1)
      [] OTHER -> Return(VlmContent(image_id), 1)

\* Variant: the provider is called without looking at its API key
process_with_vlm_NoKeyCheck(s, image_id, prompt, env) ==
    CASE s.VISION_MODEL_PROVIDER = "openai" ->
           process_with_openai_vlm(image_id, prompt,
               IF s.OPENAI_API_KEY = None /\ env = "ok" THEN "http_error" ELSE env)
      [] s.VISION_MODEL_PROVIDER = "google" ->
           Return("This is a mock response from Google VLM.", 0)
      [] s.VISION_MODEL_PROVIDER = "huggingface" ->
           Return("This is a mock response from HuggingFace VLM.", 0)
      [] OTHER ->
           Raise("Unsupported VLM provider: " \o s.VISION_MODEL_PROVIDER, 0)

\* _process_with_vlm: dispatch on the configured provider
process_with_vlm(s, image_id, prompt, env) ==
    CASE s.VISION_MODEL_PROVIDER = "openai" ->
           IF s.OPENAI_API_KEY = None
           THEN Raise("OpenAI API key not configured", 0)
           ELSE process_with_openai_vlm(image_id, prompt, env)
      [] s.VISION_MODEL_PROVIDER = "google" ->
           IF s.GOOGLE_API_KEY = None
           THEN Raise("Google API key not configured", 0)
           ELSE Return("This is a mock response from Google VLM.", 0)
      [] s.VISION_MODEL_PROVIDER = "huggingface" ->
           IF s.HUGGINGFACE_API_KEY = None
           THEN Raise("HuggingFace API key not configured", 0)
           ELSE Return("This is a mock response from HuggingFace VLM.", 0)
      [] OTHER ->
           Raise("Unsupported VLM provider: " \o s.VISION_MODEL_PROVIDER, 0)

\* Variant: a failed post is sent a second time
process_with_openai_llm_Retries(prompt, env) ==
    CASE env = "timeout" ->
           Raise("Error processing with OpenAI LLM: ", 2)
      [] env = "http_error" ->
           Raise("Error processing with OpenAI LLM: OpenAI API error: Unknown error", 2)
      [] OTHER -> Return(LlmContent(prompt), 1)

\* _process_with_openai_llm: post once, wrap every failure
process_with_openai_llm(prompt, env) ==
    CASE env = "timeout" ->
           Raise("Error processing with OpenAI LLM: ", 1)
      [] env = "http_error" ->
           Raise("Error processing with OpenAI LLM: OpenAI API error: Unknown error", 1)
      [] OTHER -> Return(LlmContent(prompt), 1)

\* _process_with_llm: dispatch on the configured provider
process_with_llm(s, prompt, env) ==
    CASE s.LLM_PROVIDER = "openai" ->
           IF s.OPENAI_API_KEY = None
           THEN Raise("OpenAI API key not configured", 0)
           ELSE process_with_openai_llm(prompt, env)
      [] s.LLM_PROVIDER = "google" ->
           IF s.GOOGLE_API_KEY = None
           THEN Raise("Google API key not configured", 0)
           ELSE Return("This is a mock response from Google LLM.", 0)
      [] s.LLM_PROVIDER = "huggingface" ->
           IF s.HUGGINGFACE_API_KEY = None
           THEN Raise("HuggingFace API key not configured", 0)
           ELSE Return("This is a mock response from HuggingFace LLM.", 0)
      [] OTHER ->
           Raise("Unsupported LLM provider: " \o s.LLM_PROVIDER, 0)

---------------------------------------------------------------------------
(* State                                                                   *)

VARIABLES
    settings,   \* the configuration the service singleton was built from
    request,    \* what the client sends: entry point, mode, custom_prompt
    db,         \* processing_results table: db[id] is the committed row
    persisted,  \* persisted[id]: the statuses committed for row id, in order
    runs,       \* the requests: position, arguments and in-memory object
    fill,       \* one evaluation of the rewrite-prompt substitution
    images,     \* images table: the committed Image rows
    files,      \* the files present in local storage
    results,    \* processing_results rows, by the image they belong to
    feedback,   \* feedback table: the rows per (processing_result_id, user_id)
    checked,    \* create_feedback calls between their checks and their insert
    saved,      \* how many files were saved and results inserted so far
    response,   \* what the last finished endpoint call answered
    now,        \* time.time(), in seconds
    requests,   \* RateLimitMiddleware.requests: client IP -> timestamps
    forwarded,  \* admission times of the requests passed on to the app
    answer      \* what the middleware did with the last request

\* The pipeline of the processing service
pipeline == <<settings, request, db, persisted, runs, fill>>

\* The records and files behind the endpoints
site == <<images, files, results, feedback, checked, saved, response>>

\* The rate limiter
limiter == <<now, requests, forwarded, answer>>

vars == <<pipeline, site, limiter>>

\* The custom_prompt values a caller sends: absent, empty, a prompt
CustomPrompts == {None, "", "describe the sign"}

\* Python truthiness of an Optional[str]
Truthy(x) == x # None /\ x # ""

\* The requests a client can send to the two entry points
Requests ==
    [path : {"existing", "upload"}, mode : ProcessingMode,
     custom_prompt : CustomPrompts]

\* The sizes of the tables and of the storage directory
MaxImages == 2
MaxResults == 2
MaxFeedback == 2

\* Members of the UserRole enumeration, by their qualified names
ADMIN == "UserRole.ADMIN"
USER == "UserRole.USER"

\* The accounts get_current_user can return: a user and an administrator
Users == {[id |-> 1, role |-> USER], [id |-> 2, role |-> ADMIN]}
UserIds == {u.id : u \in Users}

\* The ids a request can name, whether or not a row has them
ImageIds == 1..MaxImages
ResultIds == 1..MaxResults

\* No endpoint call has finished
NoResponse == [op |-> None, status |-> 0]

\* No Feedback row, or no call, for any pair
NoFeedback == [result_id \in ResultIds |-> [user_id \in UserIds |-> 0]]

\* No records, no files, no call
SiteIdle ==
    /\ images = {}
    /\ files = {}
    /\ results = {}
    /\ feedback = NoFeedback
    /\ checked = NoFeedback
    /\ saved = [files |-> 0, results |-> 0]
    /\ response = NoResponse

\* The clients of the rate limiter, by request.client.host
Clients == {"10.0.0.1", "10.0.0.2"}

\* The middleware has seen no request
LimiterIdle ==
    /\ now = 0
    /\ requests = <<>>
    /\ forwarded = [client_ip \in Clients |-> <<>>]
    /\ answer = 0

\* No substitution under evaluation
NoFill ==
    [pc |-> "idle", template |-> <<>>, response |-> None, llm_prompt |-> <<>>,
     llm_invocations |-> 0, llm_result |-> NoResult]

Init ==
    /\ settings \in Settings
    /\ request \in Requests
    /\ db = <<>>
    /\ persisted = <<>>
    /\ runs = <<>>
    /\ fill = NoFill
    /\ SiteIdle
    /\ LimiterIdle

\* A request that has just been accepted
NewRun(path, custom_prompt, id, obj, pc) ==
    [path |-> path, pc |-> pc, custom_prompt |-> custom_prompt, id |-> id,
     obj |-> obj, vlm_prompt |-> None, llm_prompt |-> <<>>,
     vlm_invocations |-> 0, llm_invocations |-> 0,
     vlm_result |-> NoResult, llm_result |-> NoResult,
     detail |-> None]

\* The HTTP 500 an entry point raises from its except branch
InternalError(cause) == "500: Error processing image: " \o cause

\* str() of the error a failed db.commit() raises
DbError == "database error"

\* Variant: the entry point reuses the image's first row instead of adding one
Insert_ReusesRow(path, custom_prompt, obj, commit_ok) ==
    IF commit_ok
    THEN IF db = <<>>
         THEN /\ db' = Append(db, obj)
              /\ persisted' = Append(persisted, <<obj.status>>)
              /\ runs' = Append(runs, NewRun(path, custom_prompt, 1, obj, "select"))
         ELSE /\ db' = [db EXCEPT ![1] = obj]
              /\ persisted' = [persisted EXCEPT ![1] = Append(@, obj.status)]
              /\ runs' = Append(runs, NewRun(path, custom_prompt, 1, obj, "select"))
    ELSE /\ runs' = Append(runs, [NewRun(path, custom_prompt, 0, obj, "raised")
                             EXCEPT !.detail = InternalError(DbError)])
         /\ UNCHANGED <<db, persisted>>

\* db.add(obj); db.commit(); db.refresh(obj) of a new row
Insert(path, custom_prompt, obj, commit_ok) ==
    IF commit_ok
    THEN /\ db' = Append(db, obj)
         /\ persisted' = Append(persisted, <<obj.status>>)
         /\ runs' = Append(runs, NewRun(path, custom_prompt, Len(db) + 1, obj, "select"))
    ELSE /\ runs' = Append(runs, [NewRun(path, custom_prompt, 0, obj, "raised")
                             EXCEPT !.detail = InternalError(DbError)])
         /\ UNCHANGED <<db, persisted>>

\* POST /process/{image_id}, past the image lookup and the permission
\* check: the row is created PENDING and handed to _process_with_models
process_existing_image(mode, custom_prompt, commit_ok) ==
    /\ Len(runs) < MaxRequests
    /\ request.path = "existing"
    /\ Insert("existing", custom_prompt,
              ProcessingResult(Len(runs) + 1, PENDING, mode, custom_prompt),
              commit_ok)
    /\ UNCHANGED <<site, limiter, fill, settings, request>>

\* ImageProcessingService.process_image: save the file and the Image, then
\* create the row PROCESSING and hand it to _process_with_models
process_image(mode, custom_prompt, upload_ok, commit_ok) ==
    /\ Len(runs) < MaxRequests
    /\ request.path = "upload"
    /\ Insert("upload", custom_prompt,
              ProcessingResult(Len(runs) + 1, PROCESSING, mode, custom_prompt),
              upload_ok /\ commit_ok)
    /\ UNCHANGED <<site, limiter, fill, settings, request>>

\* Variant: the except branch starts again from an empty record
Failed_DiscardsProvenance(obj, msg) ==
    [ProcessingResult(obj.image_id, FAILED, obj.mode, obj.custom_prompt)
        EXCEPT !.error_message = msg]

\* Variant: the except branch does not record the failure's description
Failed_NoMessage(obj, msg) == [obj EXCEPT !.status = FAILED]

\* The except branch of _process_with_models
Failed(obj, msg) == [obj EXCEPT !.status = FAILED, !.error_message = msg]

\* Variant: the success tail leaves the confidence score out
Completed_NoConfidence(obj, output) ==
    [obj EXCEPT !.final_output = output, !.status = COMPLETED]

\* Variant: the success tail does not update the status
Completed_NoStatus(obj, output) ==
    [obj EXCEPT !.final_output = output, !.confidence_score = "0.9"]

\* The success tail of _process_with_models
Completed(obj, output) ==
    [obj EXCEPT !.final_output = output, !.confidence_score = "0.9",
                !.status = COMPLETED]

\* _process_with_models, "Select prompt template"
SelectPrompt(r) ==
    /\ runs[r].pc = "select"
    /\ LET run == runs[r]
           mode == run.obj.mode
       IN IF mode = CUSTOM /\ Truthy(run.custom_prompt)
          THEN runs' = [runs EXCEPT ![r].vlm_prompt = run.custom_prompt,
                                    ![r].obj.prompt_template = run.custom_prompt,
                                    ![r].pc = "vlm"]
          ELSE IF Registered(mode)
          THEN runs' = [runs EXCEPT ![r].vlm_prompt = prompt_templates[mode].vlm,
                                    ![r].obj.prompt_template = prompt_templates[mode].vlm,
                                    ![r].pc = "vlm"]
          ELSE runs' = [runs EXCEPT ![r].obj = Failed(run.obj, KeyErrorMessage(mode)),
                                    ![r].pc = "commit"]
    /\ UNCHANGED <<site, limiter, fill, settings, request, db, persisted>>

\* The fields recorded after the vision call returned
WithVlm(obj, text) ==
    [obj EXCEPT !.vlm_provider = settings.VISION_MODEL_PROVIDER,
                !.vlm_model = VISION_MODEL_NAME,
                !.vlm_response = text,
                !.vlm_processing_time = "elapsed"]

\* The fields recorded after the language call returned
WithLlm(obj, text) ==
    [obj EXCEPT !.llm_provider = settings.LLM_PROVIDER,
                !.llm_model = LLM_MODEL_NAME,
                !.llm_response = text,
                !.llm_processing_time = "elapsed"]

\* Variant: custom mode is sent through the rewrite stage as well
ProcessWithVlm_NoBypass(r, env) ==
    /\ runs[r].pc = "vlm"
    /\ LET run == runs[r]
           res == process_with_vlm(settings, run.obj.image_id, run.vlm_prompt, env)
           called == [run EXCEPT !.vlm_invocations = @ + 1,
                                 !.vlm_result = res]
       IN IF ~res.ok
          THEN runs' = [runs EXCEPT ![r] =
                    [called EXCEPT !.obj = Failed(run.obj, res.value),
                                   !.pc = "commit"]]
          ELSE runs' = [runs EXCEPT ![r] =
                    [called EXCEPT !.obj = WithVlm(run.obj, res.value),
                                   !.llm_prompt =
                                       Format(Template(run.vlm_prompt), res.value),
                                   !.pc = "llm"]]
    /\ UNCHANGED <<site, limiter, fill, settings, request, db, persisted>>

\* Variant: custom mode reports the prompt, not the vision response
ProcessWithVlm_EchoesPrompt(r, env) ==
    /\ runs[r].pc = "vlm"
    /\ LET run == runs[r]
           res == process_with_vlm(settings, run.obj.image_id, run.vlm_prompt, env)
           called == [run EXCEPT !.vlm_invocations = @ + 1,
                                 !.vlm_result = res]
       IN IF ~res.ok
          THEN runs' = [runs EXCEPT ![r] =
                    [called EXCEPT !.obj = Failed(run.obj, res.value),
                                   !.pc = "commit"]]
          ELSE IF run.obj.mode # CUSTOM
          THEN runs' = [runs EXCEPT ![r] =
                    [called EXCEPT !.obj = WithVlm(run.obj, res.value),
                                   !.llm_prompt =
                                       Format(prompt_templates[run.obj.mode].llm, res.value),
                                   !.pc = "llm"]]
          ELSE runs' = [runs EXCEPT ![r] =
                    [called EXCEPT !.obj = Completed(WithVlm(run.obj, res.value), run.vlm_prompt),
                                   !.pc = "commit"]]
    /\ UNCHANGED <<site, limiter, fill, settings, request, db, persisted>>

\* Variant: the provider and the model are recorded before the vision call
ProcessWithVlm_RecordsProviderFirst(r, env) ==
    /\ runs[r].pc = "vlm"
    /\ LET run == runs[r]
           res == process_with_vlm(settings, run.obj.image_id, run.vlm_prompt, env)
           called == [run EXCEPT !.vlm_invocations = @ + 1,
                                 !.vlm_result = res]
           early == [run.obj EXCEPT !.vlm_provider = settings.VISION_MODEL_PROVIDER,
                                    !.vlm_model = VISION_MODEL_NAME]
       IN IF ~res.ok
          THEN runs' = [runs EXCEPT ![r] =
                    [called EXCEPT !.obj = Failed(early, res.value),
                                   !.pc = "commit"]]
          ELSE IF run.obj.mode # CUSTOM
          THEN runs' = [runs EXCEPT ![r] =
                    [called EXCEPT !.obj = WithVlm(run.obj, res.value),
                                   !.llm_prompt =
                                       Format(prompt_templates[run.obj.mode].llm, res.value),
                                   !.pc = "llm"]]
          ELSE runs' = [runs EXCEPT ![r] =
                    [called EXCEPT !.obj = Completed(WithVlm(run.obj, res.value), res.value),
                                   !.pc = "commit"]]
    /\ UNCHANGED <<site, limiter, fill, settings, request, db, persisted>>

\* Variant: a failed vision call is passed over and the rewrite still runs
ProcessWithVlm_ContinuesAfterFailure(r, env) ==
    /\ runs[r].pc = "vlm"
    /\ LET run == runs[r]
           res == process_with_vlm(settings, run.obj.image_id, run.vlm_prompt, env)
           called == [run EXCEPT !.vlm_invocations = @ + 1,
                                 !.vlm_result = res]
       IN IF run.obj.mode # CUSTOM
          THEN runs' = [runs EXCEPT ![r] =
                    [called EXCEPT !.obj = WithVlm(run.obj, res.value),
                                   !.llm_prompt =
                                       Format(prompt_templates[run.obj.mode].llm, res.value),
                                   !.pc = "llm"]]
          ELSE IF ~res.ok
          THEN runs' = [runs EXCEPT ![r] =
                    [called EXCEPT !.obj = Failed(run.obj, res.value),
                                   !.pc = "commit"]]
          ELSE runs' = [runs EXCEPT ![r] =
                    [called EXCEPT !.obj = Completed(WithVlm(run.obj, res.value), res.value),
                                   !.pc = "commit"]]
    /\ UNCHANGED <<site, limiter, fill, settings, request, db, persisted>>

\* _process_with_models, "Process with VLM" up to the language call
ProcessWithVlm(r, env) ==
    /\ runs[r].pc = "vlm"
    /\ LET run == runs[r]
           res == process_with_vlm(settings, run.obj.image_id, run.vlm_prompt, env)
           called == [run EXCEPT !.vlm_invocations = @ + 1,
                                 !.vlm_result = res]
       IN IF ~res.ok
          THEN runs' = [runs EXCEPT ![r] =
                    [called EXCEPT !.obj = Failed(run.obj, res.value),
                                   !.pc = "commit"]]
          ELSE IF run.obj.mode # CUSTOM
          THEN runs' = [runs EXCEPT ![r] =
                    [called EXCEPT !.obj = WithVlm(run.obj, res.value),
                                   !.llm_prompt =
                                       Format(prompt_templates[run.obj.mode].llm, res.value),
                                   !.pc = "llm"]]
          ELSE runs' = [runs EXCEPT ![r] =
                    [called EXCEPT !.obj = Completed(WithVlm(run.obj, res.value), res.value),
                                   !.pc = "commit"]]
    /\ UNCHANGED <<site, limiter, fill, settings, request, db, persisted>>

\* Variant: the rewrite is recorded but the vision response is reported
ProcessWithLlm_OutputsVision(r, env) ==
    /\ runs[r].pc = "llm"
    /\ LET run == runs[r]
           res == process_with_llm(settings, run.llm_prompt, env)
           called == [run EXCEPT !.llm_invocations = @ + 1,
                                 !.llm_result = res]
       IN IF ~res.ok
          THEN runs' = [runs EXCEPT ![r] =
                    [called EXCEPT !.obj = Failed(run.obj, res.value),
                                   !.pc = "commit"]]
          ELSE runs' = [runs EXCEPT ![r] =
                    [called EXCEPT !.obj = Completed(WithLlm(run.obj, res.value),
                                                     run.obj.vlm_response),
                                   !.pc = "commit"]]
    /\ UNCHANGED <<site, limiter, fill, settings, request, db, persisted>>

\* Variant: the attempt being worked on is kept on the shared service
\* object, where the latest request replaces it
ProcessWithLlm_SharedResult(r, env) ==
    /\ runs[r].pc = "llm"
    /\ LET run == runs[r]
           res == process_with_llm(settings, run.llm_prompt, env)
           called == [run EXCEPT !.llm_invocations = @ + 1,
                                 !.llm_result = res]
           current == Len(runs)
       IN IF ~res.ok
          THEN runs' = [runs EXCEPT ![r] = [called EXCEPT !.pc = "commit"],
                                    ![current].obj = Failed(@, res.value)]
          ELSE runs' = [runs EXCEPT ![r] = [called EXCEPT !.pc = "commit"],
                                    ![current].obj =
                                        Completed(WithLlm(@, res.value), res.value)]
    /\ UNCHANGED <<site, limiter, fill, settings, request, db, persisted>>

\* Variant: a failure of the language call is not caught
ProcessWithLlm_Propagates(r, env) ==
    /\ runs[r].pc = "llm"
    /\ LET run == runs[r]
           res == process_with_llm(settings, run.llm_prompt, env)
           called == [run EXCEPT !.llm_invocations = @ + 1,
                                 !.llm_result = res]
       IN IF ~res.ok
          THEN runs' = [runs EXCEPT ![r] =
                    [called EXCEPT !.detail = InternalError(res.value),
                                   !.pc = "raised"]]
          ELSE runs' = [runs EXCEPT ![r] =
                    [called EXCEPT !.obj = Completed(WithLlm(run.obj, res.value), res.value),
                                   !.pc = "commit"]]
    /\ UNCHANGED <<site, limiter, fill, settings, request, db, persisted>>

\* _process_with_models, "Process with LLM if not custom mode"
ProcessWithLlm(r, env) ==
    /\ runs[r].pc = "llm"
    /\ LET run == runs[r]
           res == process_with_llm(settings, run.llm_prompt, env)
           called == [run EXCEPT !.llm_invocations = @ + 1,
                                 !.llm_result = res]
       IN IF ~res.ok
          THEN runs' = [runs EXCEPT ![r] =
                    [called EXCEPT !.obj = Failed(run.obj, res.value),
                                   !.pc = "commit"]]
          ELSE runs' = [runs EXCEPT ![r] =
                    [called EXCEPT !.obj = Completed(WithLlm(run.obj, res.value), res.value),
                                   !.pc = "commit"]]
    /\ UNCHANGED <<site, limiter, fill, settings, request, db, persisted>>

\* Variant: the final state is returned without being committed
CommitResult_NoCommit(r, commit_ok) ==
    /\ runs[r].pc = "commit"
    /\ IF commit_ok
       THEN /\ runs' = [runs EXCEPT ![r].pc = "returned"]
            /\ UNCHANGED <<db, persisted>>
       ELSE /\ runs' = [runs EXCEPT ![r].pc = "raised",
                                    ![r].detail = InternalError(DbError)]
            /\ UNCHANGED <<db, persisted>>
    /\ UNCHANGED <<site, limiter, fill, settings, request>>

\* Variant: a failed final commit is reported as a FAILED attempt
CommitResult_SwallowsFailure(r, commit_ok) ==
    /\ runs[r].pc = "commit"
    /\ IF commit_ok
       THEN /\ db' = [db EXCEPT ![runs[r].id] = runs[r].obj]
            /\ persisted' = [persisted EXCEPT ![runs[r].id] = Append(@, runs[r].obj.status)]
            /\ runs' = [runs EXCEPT ![r].pc = "returned"]
       ELSE /\ runs' = [runs EXCEPT ![r].obj = Failed(runs[r].obj, DbError),
                                    ![r].pc = "returned"]
            /\ UNCHANGED <<db, persisted>>
    /\ UNCHANGED <<site, limiter, fill, settings, request>>

\* _process_with_models, "Update the processing result in the database",
\* and the return of the entry point; a failed commit propagates as HTTP 500
CommitResult(r, commit_ok) ==
    /\ runs[r].pc = "commit"
    /\ IF commit_ok
       THEN /\ db' = [db EXCEPT ![runs[r].id] = runs[r].obj]
            /\ persisted' = [persisted EXCEPT ![runs[r].id] = Append(@, runs[r].obj.status)]
            /\ runs' = [runs EXCEPT ![r].pc = "returned"]
       ELSE /\ runs' = [runs EXCEPT ![r].pc = "raised",
                                    ![r].detail = InternalError(DbError)]
            /\ UNCHANGED <<db, persisted>>
    /\ UNCHANGED <<site, limiter, fill, settings, request>>

Next ==
    \/ \E ok \in BOOLEAN :
           process_existing_image(request.mode, request.custom_prompt, ok)
    \/ \E up \in BOOLEAN, ok \in BOOLEAN :
           process_image(request.mode, request.custom_prompt, up, ok)
    \/ \E r \in DOMAIN runs : SelectPrompt(r)
    \/ \E r \in DOMAIN runs, env \in Env : ProcessWithVlm(r, env)
    \/ \E r \in DOMAIN runs, env \in Env : ProcessWithLlm(r, env)
    \/ \E r \in DOMAIN runs, ok \in BOOLEAN : CommitResult(r, ok)

Spec == Init /\ [][Next]_vars

\* Every started run is scheduled until its entry point returns or raises:
\* the event loop resumes the coroutine and each outbound call is bounded
\* by the client's timeout
Step(r) ==
    /\ r \in DOMAIN runs
    /\ \/ SelectPrompt(r)
       \/ \E env \in Env : ProcessWithVlm(r, env)
       \/ \E env \in Env : ProcessWithLlm(r, env)
       \/ \E ok \in BOOLEAN : CommitResult(r, ok)

FairSpec == Spec /\ \A r \in 1..MaxRequests : WF_vars(Step(r))

---------------------------------------------------------------------------
(* The rewrite-prompt substitution on its own                              *)

MaxPieces == 3

\* What a rewrite template is made of: literal text and the slot
Pieces == {"Rewrite for a blind user:", "Be brief.", Slot}

\* The rewrite templates of at most MaxPieces pieces
Templates == UNION {[1..n -> Pieces] : n \in 0..MaxPieces}

\* Vision responses: plain, with braces of its own, and the token itself
Responses == {"a red door", "a {sign} ahead", Slot}

\* A rewrite template and a vision response about to be combined
FormatInit ==
    /\ settings \in Settings
    /\ request = [path |-> "existing", mode |-> DESCRIPTION, custom_prompt |-> None]
    /\ db = <<>>
    /\ persisted = <<>>
    /\ runs = <<>>
    /\ SiteIdle
    /\ LimiterIdle
    /\ fill \in {[NoFill EXCEPT !.pc = "format", !.template = t, !.response = v] :
                    t \in Templates, v \in Responses}

\* llm_prompt = template.format(vlm_description=vlm_response)
FillTemplate ==
    /\ fill.pc = "format"
    /\ fill' = [fill EXCEPT !.llm_prompt = Format(fill.template, fill.response),
                            !.pc = "llm"]
    /\ UNCHANGED <<site, limiter, settings, request, db, persisted, runs>>

\* llm_response = await self._process_with_llm(llm_prompt)
CallLlm(env) ==
    /\ fill.pc = "llm"
    /\ fill' = [fill EXCEPT !.llm_invocations = @ + 1,
                            !.llm_result = process_with_llm(settings, fill.llm_prompt, env),
                            !.pc = "done"]
    /\ UNCHANGED <<site, limiter, settings, request, db, persisted, runs>>

FormatNext ==
    \/ FillTemplate
    \/ \E env \in Env : CallLlm(env)

FormatSpec == FormatInit /\ [][FormatNext]_vars

---------------------------------------------------------------------------
(* app/api/endpoints/images.py and processing.py: records and files        *)

\* db.query(Image).filter(Image.id == image_id).first()
ImageById(image_id) == {img \in images : img.id = image_id}
ResultById(result_id) == {res \in results : res.id = result_id}

\* The negation of the test that answers 403:
\* image.user_id != current_user.id and current_user.role != "admin"
HasAccess(image, current_user) ==
    ~(image.user_id # current_user.id /\ current_user.role # "admin")

\* The answer of a finished endpoint call
Respond(op, status) == [op |-> op, status |-> status]

\* The Image row a request creates for the file it has just saved
NewImage(current_user) ==
    [id |-> saved.files + 1, user_id |-> current_user.id,
     file_path |-> saved.files + 1]

\* The ProcessingResult row a request creates for an image
NewResult(image_id) == [id |-> saved.results + 1, image_id |-> image_id]

\* POST /images/upload: save the file, then insert the Image row
upload_image(current_user, save_ok, commit_ok) ==
    /\ saved.files < MaxImages
    /\ IF ~save_ok
       THEN /\ response' = Respond("upload_image", 500)
            /\ UNCHANGED <<images, files, saved>>
       ELSE /\ files' = files \cup {saved.files + 1}
            /\ saved' = [saved EXCEPT !.files = @ + 1]
            /\ IF commit_ok
               THEN /\ images' = images \cup {NewImage(current_user)}
                    /\ response' = Respond("upload_image", 200)
               ELSE /\ response' = Respond("upload_image", 500)
                    /\ UNCHANGED images
    /\ UNCHANGED <<results, feedback, checked, pipeline, limiter>>

\* Where a run of process_image or process_existing_image breaks off
Failures == {"save", "image", "result", "final", "none"}

\* Variant: the ProcessingResult row is inserted in the same transaction
\* as the Image row, whose failure is ignored
upload_and_process_image_ResultWithoutImage(current_user, failure) ==
    /\ saved.files < MaxImages
    /\ saved.results < MaxResults
    /\ LET image == NewImage(current_user)
           result == NewResult(image.id)
           file_saved == failure # "save"
           image_added == failure \notin {"save", "image"}
           result_added == failure \notin {"save", "result"}
       IN /\ files' = IF file_saved THEN files \cup {image.file_path} ELSE files
          /\ images' = IF image_added THEN images \cup {image} ELSE images
          /\ results' = IF result_added THEN results \cup {result} ELSE results
          /\ saved' = [files |-> IF file_saved THEN saved.files + 1 ELSE saved.files,
                       results |-> IF result_added THEN saved.results + 1
                                   ELSE saved.results]
          /\ response' = Respond("process_image",
                                 IF failure = "none" THEN 200 ELSE 500)
    /\ UNCHANGED <<feedback, checked, pipeline, limiter>>

\* POST /process/upload-and-process through process_image: save the file,
\* insert the Image row, insert the ProcessingResult row, run the models
\* and commit the outcome
upload_and_process_image(current_user, failure) ==
    /\ saved.files < MaxImages
    /\ saved.results < MaxResults
    /\ LET image == NewImage(current_user)
           result == NewResult(image.id)
           file_saved == failure # "save"
           image_added == failure \notin {"save", "image"}
           result_added == failure \notin {"save", "image", "result"}
       IN /\ files' = IF file_saved THEN files \cup {image.file_path} ELSE files
          /\ images' = IF image_added THEN images \cup {image} ELSE images
          /\ results' = IF result_added THEN results \cup {result} ELSE results
          /\ saved' = [files |-> IF file_saved THEN saved.files + 1 ELSE saved.files,
                       results |-> IF result_added THEN saved.results + 1
                                   ELSE saved.results]
          /\ response' = Respond("process_image",
                                 IF failure = "none" THEN 200 ELSE 500)
    /\ UNCHANGED <<feedback, checked, pipeline, limiter>>

\* The answer of an image-scoped endpoint that stops at its lookup or at
\* its permission check: 404 for no row, 403 for no access, 0 to go on
Refusal(image_id, current_user) ==
    IF ImageById(image_id) = {} THEN 404
    ELSE IF ~HasAccess(CHOOSE img \in ImageById(image_id) : TRUE, current_user)
    THEN 403 ELSE 0

\* The user the image belongs to, 0 when there is no such image
OwnerOf(image_id) ==
    IF ImageById(image_id) = {} THEN 0
    ELSE (CHOOSE img \in ImageById(image_id) : TRUE).user_id

\* POST /process/{image_id}: lookup, permission check, then the attempt
process_existing_image_request(current_user, image_id, failure) ==
    /\ failure \in {"result", "final", "none"}
    /\ LET refused == Refusal(image_id, current_user)
       IN IF refused # 0
          THEN /\ response' = Respond("process_existing_image", refused)
               /\ UNCHANGED <<results, saved>>
          ELSE /\ saved.results < MaxResults
               /\ IF failure = "result"
                  THEN UNCHANGED <<results, saved>>
                  ELSE /\ results' = results \cup {NewResult(image_id)}
                       /\ saved' = [saved EXCEPT !.results = @ + 1]
               /\ response' = Respond("process_existing_image",
                                      IF failure = "none" THEN 200 ELSE 500)
    /\ UNCHANGED <<images, files, feedback, checked, pipeline, limiter>>

\* GET /images/{image_id}
get_image(current_user, image_id) ==
    /\ LET refused == Refusal(image_id, current_user)
       IN response' = Respond("get_image", IF refused # 0 THEN refused ELSE 200)
    /\ UNCHANGED <<images, files, results, feedback, checked, saved, pipeline, limiter>>

\* PUT /images/{image_id}: the fields it can set are none of those kept here
update_image(current_user, image_id, commit_ok) ==
    /\ LET refused == Refusal(image_id, current_user)
       IN response' = Respond("update_image",
                              IF refused # 0 THEN refused
                              ELSE IF commit_ok THEN 200 ELSE 500)
    /\ UNCHANGED <<images, files, results, feedback, checked, saved, pipeline, limiter>>

\* DELETE /images/{image_id}: delete the file, whose failure is only logged,
\* then delete the row; its results and their feedback go with it
delete_image(current_user, image_id, file_deleted, commit_ok) ==
    /\ LET refused == Refusal(image_id, current_user)
           gone == {res.id : res \in {x \in results : x.image_id = image_id}}
       IN IF refused # 0
          THEN /\ response' = Respond("delete_image", refused)
               /\ UNCHANGED <<images, files, results, feedback>>
          ELSE /\ files' = IF file_deleted
                           THEN files \ {img.file_path : img \in ImageById(image_id)}
                           ELSE files
               /\ IF commit_ok
                  THEN /\ images' = images \ ImageById(image_id)
                       /\ results' = {res \in results : res.image_id # image_id}
                       /\ feedback' = [result_id \in ResultIds |->
                                          IF result_id \in gone
                                          THEN NoFeedback[result_id]
                                          ELSE feedback[result_id]]
                       /\ response' = Respond("delete_image", 200)
                  ELSE /\ response' = Respond("delete_image", 500)
                       /\ UNCHANGED <<images, results, feedback>>
    /\ UNCHANGED <<checked, saved, pipeline, limiter>>

\* The image a result belongs to, 0 when there is no such result
ImageOf(result_id) ==
    IF ResultById(result_id) = {} THEN 0
    ELSE (CHOOSE res \in ResultById(result_id) : TRUE).image_id

\* The answer of a result-scoped endpoint that stops at its lookup or at
\* its permission check
ResultRefusal(result_id, current_user) ==
    IF ResultById(result_id) = {} THEN 404
    ELSE Refusal(ImageOf(result_id), current_user)

\* GET /process/results/{result_id}
get_processing_result(current_user, result_id) ==
    /\ LET refused == ResultRefusal(result_id, current_user)
       IN response' = Respond("get_processing_result",
                              IF refused # 0 THEN refused ELSE 200)
    /\ UNCHANGED <<images, files, results, feedback, checked, saved, pipeline, limiter>>

\* The number of rows, or of calls, over all pairs
RECURSIVE Count(_, _, _)
Count(table, result_ids, user_ids) ==
    IF result_ids = {} THEN 0
    ELSE LET result_id == CHOOSE r \in result_ids : TRUE
         IN IF user_ids = {}
            THEN Count(table, result_ids \ {result_id}, UserIds)
            ELSE LET user_id == CHOOSE u \in user_ids : TRUE
                 IN table[result_id][user_id]
                      + Count(table, result_ids, user_ids \ {user_id})

\* POST /process/feedback up to "Check if feedback already exists": the
\* lookups, the permission check and the query for an existing row
create_feedback_check(current_user, result_id) ==
    /\ LET refused == ResultRefusal(result_id, current_user)
       IN IF refused # 0
          THEN /\ response' = Respond("create_feedback", refused)
               /\ UNCHANGED checked
          ELSE IF feedback[result_id][current_user.id] > 0
          THEN /\ response' = Respond("create_feedback", 400)
               /\ UNCHANGED checked
          ELSE /\ Count(feedback, ResultIds, UserIds)
                    + Count(checked, ResultIds, UserIds) < MaxFeedback
               /\ checked' = [checked EXCEPT ![result_id][current_user.id] = @ + 1]
               /\ response' = Respond("create_feedback", 0)
    /\ UNCHANGED <<images, files, results, feedback, saved, pipeline, limiter>>

\* POST /process/feedback from "Create feedback": add the row and commit;
\* the commit fails when the result is gone
create_feedback_insert(current_user, result_id, commit_ok) ==
    /\ checked[result_id][current_user.id] > 0
    /\ LET inserted == commit_ok /\ ResultById(result_id) # {}
       IN /\ checked' = [checked EXCEPT ![result_id][current_user.id] = @ - 1]
          /\ feedback' =
                 IF inserted
                 THEN [feedback EXCEPT ![result_id][current_user.id] = @ + 1]
                 ELSE feedback
          /\ response' = Respond("create_feedback", IF inserted THEN 200 ELSE 500)
    /\ UNCHANGED <<images, files, results, saved, pipeline, limiter>>

\* The endpoints start on an empty database and an empty storage directory
SiteInit ==
    /\ settings \in {s \in Settings : s.VISION_MODEL_PROVIDER = "openai"
                                       /\ s.LLM_PROVIDER = "openai"
                                       /\ s.OPENAI_API_KEY # None}
    /\ request = [path |-> "existing", mode |-> DESCRIPTION, custom_prompt |-> None]
    /\ db = <<>>
    /\ persisted = <<>>
    /\ runs = <<>>
    /\ fill = NoFill
    /\ SiteIdle
    /\ LimiterIdle

SiteNext ==
    \/ \E u \in Users, save_ok \in BOOLEAN, commit_ok \in BOOLEAN :
           upload_image(u, save_ok, commit_ok)
    \/ \E u \in Users, failure \in Failures :
           upload_and_process_image(u, failure)
    \/ \E u \in Users, id \in ImageIds, failure \in Failures :
           process_existing_image_request(u, id, failure)
    \/ \E u \in Users, id \in ImageIds : get_image(u, id)
    \/ \E u \in Users, id \in ImageIds, commit_ok \in BOOLEAN :
           update_image(u, id, commit_ok)
    \/ \E u \in Users, id \in ImageIds, file_deleted \in BOOLEAN, commit_ok \in BOOLEAN :
           delete_image(u, id, file_deleted, commit_ok)
    \/ \E u \in Users, id \in ResultIds : get_processing_result(u, id)
    \/ \E u \in Users, id \in ResultIds : create_feedback_check(u, id)
    \/ \E u \in Users, id \in ResultIds, commit_ok \in BOOLEAN :
           create_feedback_insert(u, id, commit_ok)

SiteSpec == SiteInit /\ [][SiteNext]_vars

\* The requests that create and remove files and rows
StoreNext ==
    \/ \E u \in Users, save_ok \in BOOLEAN, commit_ok \in BOOLEAN :
           upload_image(u, save_ok, commit_ok)
    \/ \E u \in Users, failure \in Failures :
           upload_and_process_image(u, failure)
    \/ \E u \in Users, id \in ImageIds, file_deleted \in BOOLEAN, commit_ok \in BOOLEAN :
           delete_image(u, id, file_deleted, commit_ok)

StoreSpec == SiteInit /\ [][StoreNext]_vars

---------------------------------------------------------------------------
(* app/core/middleware.py: RateLimitMiddleware                             *)

\* RateLimitMiddleware(app, limit, window), and how long the clock runs
limit == 2
window == 2
MaxTime == 4

\* self.requests[client_ip] of the defaultdict(list)
Timestamps(client_ip) ==
    IF client_ip \in DOMAIN requests THEN requests[client_ip] ELSE <<>>

\* [timestamp for timestamp in timestamps if current_time - timestamp < self.window]
Recent(timestamps, current_time) ==
    SelectSeq(timestamps, LAMBDA timestamp : current_time - timestamp < window)

\* self.requests[client_ip] = value
Store(client_ip, value) ==
    [ip \in DOMAIN requests \cup {client_ip} |->
        IF ip = client_ip THEN value ELSE requests[ip]]

\* Variant: the request that finds limit recent timestamps is still admitted
call_AdmitsAtLimit(client_ip) ==
    /\ LET current_time == now
           recent == Recent(Timestamps(client_ip), current_time)
       IN IF Len(recent) > limit
          THEN /\ requests' = Store(client_ip, recent)
               /\ answer' = 429
               /\ UNCHANGED forwarded
          ELSE /\ requests' = Store(client_ip, Append(recent, current_time))
               /\ forwarded' = [forwarded EXCEPT ![client_ip] = Append(@, current_time)]
               /\ answer' = 200
    /\ UNCHANGED <<now, pipeline, site>>

\* RateLimitMiddleware.__call__: purge the client's old timestamps, then
\* reject with 429 or record the request and pass it on
call(client_ip) ==
    /\ LET current_time == now
           recent == Recent(Timestamps(client_ip), current_time)
       IN IF Len(recent) >= limit
          THEN /\ requests' = Store(client_ip, recent)
               /\ answer' = 429
               /\ UNCHANGED forwarded
          ELSE /\ requests' = Store(client_ip, Append(recent, current_time))
               /\ forwarded' = [forwarded EXCEPT ![client_ip] = Append(@, current_time)]
               /\ answer' = 200
    /\ UNCHANGED <<now, pipeline, site>>

\* One round of _cleanup_old_requests: purge every list, drop the empty ones
cleanup_old_requests ==
    /\ LET current_time == now
           kept == {ip \in DOMAIN requests : Recent(requests[ip], current_time) # <<>>}
       IN requests' = [ip \in kept |-> Recent(requests[ip], current_time)]
    /\ UNCHANGED <<now, forwarded, answer, pipeline, site>>

\* time.time() advances
tick ==
    /\ now < MaxTime
    /\ now' = now + 1
    /\ UNCHANGED <<requests, forwarded, answer, pipeline, site>>

LimiterNext ==
    \/ \E client_ip \in Clients : call(client_ip)
    \/ cleanup_old_requests
    \/ tick

LimiterSpec == SiteInit /\ [][LimiterNext]_vars

---------------------------------------------------------------------------
(* Properties                                                              *)

Terminal == {COMPLETED, FAILED}

\* The run's entry point has returned the attempt to its caller
Returned(r) == runs[r].pc = "returned"

\* The run's entry point has raised (HTTP 500)
Raised(r) == runs[r].pc = "raised"

\* The run's attempt row was inserted
Inserted(r) == runs[r].id # 0

\* The run is past the try/except of _process_with_models
Settled(r) == Inserted(r) /\ runs[r].pc \in {"commit", "returned", "raised"}

VlmSucceeded(r) == runs[r].vlm_invocations > 0 /\ runs[r].vlm_result.ok
VlmFailed(r) == runs[r].vlm_invocations > 0 /\ ~runs[r].vlm_result.ok
LlmSucceeded(r) == runs[r].llm_invocations > 0 /\ runs[r].llm_result.ok
LlmFailed(r) == runs[r].llm_invocations > 0 /\ ~runs[r].llm_result.ok

\* C1: every attempt an entry point returns to its caller has status
\* COMPLETED or FAILED, never PENDING or PROCESSING, whatever the mode, the
\* custom_prompt and the outcomes of the vision and language calls.
C1_ReturnedAttemptIsTerminal ==
    \A r \in DOMAIN runs : Returned(r) => runs[r].obj.status \in Terminal

\* C1 witness: one request returned COMPLETED and another returned FAILED
C1_Witness ==
    \E r1, r2 \in DOMAIN runs :
        /\ Returned(r1) /\ runs[r1].obj.status = COMPLETED
        /\ Returned(r2) /\ runs[r2].obj.status = FAILED

\* C2: for every ProcessingMode other than CUSTOM, the registry lookup
\* prompt_templates[mode] succeeds and yields a non-empty vision prompt and
\* a rewrite template: whatever non-custom mode a run is in, its lookup
\* succeeds and the run gets past the prompt selection with that prompt.
C2_EveryModeRegistered ==
    \A r \in DOMAIN runs :
        (Inserted(r) /\ runs[r].obj.mode # CUSTOM /\ runs[r].pc # "select") =>
            /\ Registered(runs[r].obj.mode)
            /\ prompt_templates[runs[r].obj.mode].vlm \notin {None, ""}
            /\ prompt_templates[runs[r].obj.mode].llm # <<>>
            /\ runs[r].vlm_prompt = prompt_templates[runs[r].obj.mode].vlm

\* C3: if the vision call succeeds and the language call then fails, the
\* attempt has status FAILED, keeps vlm_response, vlm_provider, vlm_model
\* and vlm_processing_time from the vision stage and has llm_response
\* unset; this is the attempt that is persisted and returned.
C3_RewriteFailureKeepsVision ==
    \A r \in DOMAIN runs :
        (VlmSucceeded(r) /\ LlmFailed(r)) =>
            /\ runs[r].obj.status = FAILED
            /\ runs[r].obj.vlm_response = runs[r].vlm_result.value
            /\ runs[r].obj.vlm_provider = settings.VISION_MODEL_PROVIDER
            /\ runs[r].obj.vlm_model = VISION_MODEL_NAME
            /\ runs[r].obj.vlm_processing_time # None
            /\ runs[r].obj.llm_response = None
            /\ Returned(r) => db[runs[r].id] = runs[r].obj

\* C3 witness: a returned attempt whose vision call succeeded and whose
\* language call failed
C3_Witness ==
    \E r \in DOMAIN runs : VlmSucceeded(r) /\ LlmFailed(r) /\ Returned(r)

\* The stored row of run r is COMPLETED or FAILED and the attempt was returned
EndedTerminal(r) ==
    /\ r \in DOMAIN runs
    /\ Inserted(r) /\ Returned(r)
    /\ db[runs[r].id].status \in Terminal

\* The final commit of run r failed: the entry point raised and the stored
\* row is still the one that was inserted
EndedRaised(r) ==
    /\ r \in DOMAIN runs
    /\ Inserted(r) /\ Raised(r)
    /\ persisted[runs[r].id] \in {<<PENDING>>, <<PROCESSING>>}
    /\ db[runs[r].id].status = persisted[runs[r].id][1]

\* C4 as stated: no inserted attempt row is left PENDING or PROCESSING: when
\* the run is over, the stored row is COMPLETED or FAILED, also when the
\* final commit failed.
C4_StoredRowAlwaysTerminal ==
    \A r \in DOMAIN runs :
        (Inserted(r) /\ (Returned(r) \/ Raised(r))) =>
            db[runs[r].id].status \in Terminal

\* C4 as amended: once an attempt row has been inserted the run ends, for
\* every outcome of the model calls: either the final commit succeeds and
\* the stored row is COMPLETED or FAILED, or the final commit fails, the
\* entry point raises, and the stored row keeps the status it was inserted
\* with.
C4_RunEndsTerminalOrRaised ==
    \A r \in 1..MaxRequests :
        (r \in DOMAIN runs /\ Inserted(r)) ~> (EndedTerminal(r) \/ EndedRaised(r))

\* C4 witness: one run ended with a terminal stored row, another with a
\* failed final commit and a row left as inserted
C4_Witness ==
    \E r1, r2 \in DOMAIN runs : EndedTerminal(r1) /\ EndedRaised(r2)

\* Position of a status on PENDING -> PROCESSING -> (COMPLETED | FAILED)
Rank(status) ==
    CASE status = PENDING -> 0
      [] status = PROCESSING -> 1
      [] OTHER -> 2

\* One step from status a to status b stays on the chain
Forward(a, b) == Rank(a) <= Rank(b) /\ (a \in Terminal => b = a)

\* C5: the status of an attempt, stored or in memory, never moves backwards
\* on PENDING -> PROCESSING -> (COMPLETED | FAILED), and once it is
\* COMPLETED or FAILED no later step of any request changes it.
C5_TerminalStatusIsFinal ==
    [][/\ \A id \in DOMAIN db : Forward(db[id].status, db'[id].status)
       /\ \A r \in DOMAIN runs :
              Forward(runs[r].obj.status, runs'[r].obj.status)]_vars

\* C5 witness: a stored row is terminal and a later request has run to its
\* end
C5_Witness ==
    /\ Len(runs) = 2
    /\ Inserted(1) /\ db[runs[1].id].status \in Terminal
    /\ Inserted(2) /\ Returned(2) /\ runs[2].id # runs[1].id

\* C6: every attempt is first persisted PENDING and is persisted PROCESSING
\* before the vision call is made, on both entry paths.
C6_PendingThenProcessingPersisted ==
    \A r \in DOMAIN runs :
        Inserted(r) =>
            /\ persisted[runs[r].id][1] = PENDING
            /\ runs[r].vlm_invocations > 0 =>
                   /\ Len(persisted[runs[r].id]) >= 2
                   /\ persisted[runs[r].id][2] = PROCESSING

\* C7: in CUSTOM mode with a non-empty custom_prompt and a successful
\* vision call the attempt is COMPLETED, final_output is the vision
\* response, and no llm_* field is set; a returned attempt is stored so.
C7_CustomOutputIsVisionResponse ==
    \A r \in DOMAIN runs :
        (/\ runs[r].obj.mode = CUSTOM
         /\ Truthy(runs[r].custom_prompt)
         /\ VlmSucceeded(r)) =>
            /\ runs[r].obj.status = COMPLETED
            /\ runs[r].obj.vlm_response = runs[r].vlm_result.value
            /\ runs[r].obj.final_output = runs[r].obj.vlm_response
            /\ runs[r].obj.llm_provider = None
            /\ runs[r].obj.llm_model = None
            /\ runs[r].obj.llm_response = None
            /\ runs[r].obj.llm_processing_time = None
            /\ Returned(r) => db[runs[r].id] = runs[r].obj

\* C7 witness: a returned CUSTOM attempt with a prompt and a response
C7_Witness ==
    \E r \in DOMAIN runs :
        /\ runs[r].obj.mode = CUSTOM /\ Truthy(runs[r].custom_prompt)
        /\ VlmSucceeded(r) /\ Returned(r)

\* C8: in CUSTOM mode the language call is never invoked, whatever the
\* outcome of the vision call.
C8_CustomNeverCallsLlm ==
    \A r \in DOMAIN runs :
        runs[r].obj.mode = CUSTOM =>
            /\ runs[r].llm_invocations = 0
            /\ runs[r].llm_result = NoResult
            /\ runs[r].pc # "llm"

\* C8 witness: CUSTOM runs are over, one after a successful and one after a
\* failed vision call
C8_Witness ==
    \E r1, r2 \in DOMAIN runs :
        /\ runs[r1].obj.mode = CUSTOM /\ VlmSucceeded(r1) /\ Settled(r1)
        /\ runs[r2].obj.mode = CUSTOM /\ VlmFailed(r2) /\ Settled(r2)

\* C9: with mode CUSTOM and custom_prompt absent (None or empty) the run
\* makes no vision or language call and does not return an attempt: the
\* failure is raised to the caller.
C9_CustomWithoutPromptIsRaised ==
    \A r \in DOMAIN runs :
        (runs[r].obj.mode = CUSTOM /\ ~Truthy(runs[r].custom_prompt)) =>
            /\ runs[r].vlm_invocations = 0
            /\ runs[r].llm_invocations = 0
            /\ ~Returned(r)

\* C10: in every persisted state of an attempt, error_message is set if and
\* only if status is FAILED.
C10_ErrorMessageIffFailed ==
    \A id \in DOMAIN db :
        (db[id].error_message # None) <=> (db[id].status = FAILED)

\* C10 witness: a FAILED row and a COMPLETED row are stored
C10_Witness ==
    \E i, j \in DOMAIN db :
        /\ db[i].status = FAILED /\ db[i].error_message # None
        /\ db[j].status = COMPLETED

\* What the openai vision operation raises when the run's image file
\* cannot be read
FileReadFailure(r) ==
    process_with_openai_vlm(runs[r].obj.image_id, runs[r].vlm_prompt, "unreadable")

\* The description of the failure that ended the run's model calls
FailureOf(r) ==
    IF VlmFailed(r) THEN runs[r].vlm_result.value ELSE runs[r].llm_result.value

\* C11: a failure of the vision call, of the language call or of the read
\* of the image file is caught inside _process_with_models: the attempt
\* is FAILED with error_message equal to the failure's description, the
\* run goes on to the final commit, and what the entry point returns is
\* the stored row; the only error it can still raise is the commit's.
C11_ModelFailureIsCaught ==
    \A r \in DOMAIN runs :
        (VlmFailed(r) \/ LlmFailed(r)) =>
            /\ Settled(r)
            /\ runs[r].obj.status = FAILED
            /\ runs[r].obj.error_message = FailureOf(r)
            /\ Returned(r) => db[runs[r].id] = runs[r].obj
            /\ Raised(r) => runs[r].detail = InternalError(DbError)

\* Two returned attempts: one whose image file could not be read, one
\* whose language call failed after a successful vision call
C11_Witness ==
    /\ Len(runs) = 2
    /\ Returned(1) /\ VlmFailed(1) /\ runs[1].vlm_result = FileReadFailure(1)
    /\ db[runs[1].id].status = FAILED
    /\ Returned(2) /\ VlmSucceeded(2) /\ LlmFailed(2)
    /\ db[runs[2].id].error_message = runs[2].llm_result.value

\* C12: a failure of the final commit is never turned into a returned
\* FAILED attempt: an attempt is returned only when its final state was
\* committed, and a run whose final commit failed ends as a raised HTTP 500
\* with the row left as it was inserted.
C12_CommitFailureIsRaised ==
    \A r \in DOMAIN runs :
        Inserted(r) =>
            /\ Returned(r) => /\ db[runs[r].id] = runs[r].obj
                              /\ runs[r].detail = None
            /\ Raised(r) => /\ runs[r].detail = InternalError(DbError)
                            /\ runs[r].obj.status \in Terminal
                            /\ persisted[runs[r].id] = <<db[runs[r].id].status>>
                            /\ db[runs[r].id].status \notin Terminal

\* One run whose final commit failed after a FAILED outcome, next to one
\* that returned a FAILED attempt
C12_Witness ==
    /\ Len(runs) = 2
    /\ Inserted(1) /\ Raised(1) /\ runs[1].obj.status = FAILED
    /\ Returned(2) /\ db[runs[2].id].status = FAILED

\* C13: within a run the language call starts only after the vision call
\* has returned successfully, never before it completed and never after it
\* failed, and the language prompt is the mode's rewrite template filled
\* with the vision response of that same attempt.
C13_LlmOnlyAfterVlmSuccess ==
    \A r \in DOMAIN runs :
        /\ (runs[r].pc = "llm" \/ runs[r].llm_invocations > 0) =>
               /\ VlmSucceeded(r)
               /\ runs[r].vlm_invocations = 1
               /\ runs[r].obj.vlm_response = runs[r].vlm_result.value
               /\ runs[r].llm_prompt =
                      Format(prompt_templates[runs[r].obj.mode].llm,
                             runs[r].vlm_result.value)
               /\ \E i \in DOMAIN runs[r].llm_prompt :
                      runs[r].llm_prompt[i] = runs[r].vlm_result.value
        /\ (runs[r].vlm_invocations = 0 \/ VlmFailed(r)) =>
               /\ runs[r].llm_invocations = 0
               /\ runs[r].pc # "llm"

\* One run whose language call was made after its vision call returned,
\* next to one whose vision call failed
C13_Witness ==
    /\ Len(runs) = 2
    /\ VlmSucceeded(1) /\ runs[1].llm_invocations = 1 /\ Returned(1)
    /\ VlmFailed(2) /\ Returned(2)

\* The run's vision result is an outcome of the vision call made for the
\* run's own image with the run's own prompt
OwnVlmCall(r) ==
    /\ VlmSucceeded(r)
    /\ \E env \in Env :
           runs[r].vlm_result =
               process_with_vlm(settings, runs[r].obj.image_id, runs[r].vlm_prompt, env)

\* The run's language result is an outcome of the language call made with
\* the run's own prompt
OwnLlmCall(r) ==
    /\ LlmSucceeded(r)
    /\ \E env \in Env :
           runs[r].llm_result = process_with_llm(settings, runs[r].llm_prompt, env)

\* The record's model outputs are those of the run's own calls
OwnOutputs(rec, r) ==
    /\ rec.image_id = runs[r].obj.image_id
    /\ rec.vlm_response # None =>
           OwnVlmCall(r) /\ rec.vlm_response = runs[r].vlm_result.value
    /\ rec.llm_response # None =>
           OwnLlmCall(r) /\ rec.llm_response = runs[r].llm_result.value
    /\ rec.final_output # None =>
           \/ OwnLlmCall(r) /\ rec.final_output = runs[r].llm_result.value
           \/ OwnVlmCall(r) /\ rec.final_output = runs[r].vlm_result.value

\* Whatever the interleaving, each run's record, in memory and stored,
\* holds only outputs of that run's own model calls
Isolated ==
    \A r \in DOMAIN runs :
        Inserted(r) =>
            /\ \A q \in DOMAIN runs : q # r => runs[q].id # runs[r].id
            /\ OwnOutputs(runs[r].obj, r)
            /\ OwnOutputs(db[runs[r].id], r)

\* C14: for every interleaving of concurrent runs on different attempts
\* that share the service object, every run's attempt reaches a terminal
\* state, and the vlm_response, llm_response and final_output of each
\* record come only from the model calls made for that same attempt.
C14_ConcurrentRunsIsolated ==
    /\ []Isolated
    /\ \A r \in 1..MaxRequests :
           (r \in DOMAIN runs /\ Inserted(r)) ~>
               (r \in DOMAIN runs /\ Settled(r) /\ runs[r].obj.status \in Terminal)

\* The later request has been answered while the earlier one still awaits
\* its language call, each holding the vision response for its own image
C14_Witness ==
    /\ Len(runs) = 2
    /\ runs[1].pc = "llm"
    /\ Returned(2) /\ db[runs[2].id].status = COMPLETED
    /\ db[runs[2].id].llm_response # None
    /\ db[runs[2].id].vlm_response # runs[1].obj.vlm_response

\* C15: in every mode other than custom, when the vision call and the
\* language call both succeeded, the attempt is COMPLETED and its
\* final_output is the language response, not the vision response; the
\* returned attempt is stored so.
C15_OutputIsLlmResponse ==
    \A r \in DOMAIN runs :
        (runs[r].obj.mode # CUSTOM /\ VlmSucceeded(r) /\ LlmSucceeded(r)) =>
            /\ runs[r].obj.status = COMPLETED
            /\ runs[r].obj.llm_response = runs[r].llm_result.value
            /\ runs[r].obj.final_output = runs[r].obj.llm_response
            /\ runs[r].obj.final_output # runs[r].obj.vlm_response
            /\ Returned(r) => db[runs[r].id].final_output = runs[r].llm_result.value

\* A returned attempt of a mode other than custom whose two calls succeeded
C15_Witness ==
    \E r \in DOMAIN runs :
        /\ runs[r].obj.mode # CUSTOM
        /\ VlmSucceeded(r) /\ LlmSucceeded(r) /\ Returned(r)
        /\ db[runs[r].id].final_output = db[runs[r].id].llm_response
        /\ db[runs[r].id].status = COMPLETED

\* Where the template has its slots
Slots(template) == {i \in DOMAIN template : template[i] = Slot}

\* The substitution under evaluation has been carried out
Filled == fill.pc \in {"llm", "done"}

\* C16: filling a rewrite template that has exactly one slot with a
\* vision response that is not itself the token yields a prompt which
\* contains the response literally, in the slot's place, and in which no
\* token remains; the rest of the template is unchanged.
C16_SingleSlotFilled ==
    (Filled /\ Cardinality(Slots(fill.template)) = 1 /\ fill.response # Slot) =>
        /\ Len(fill.llm_prompt) = Len(fill.template)
        /\ \A i \in Slots(fill.template) : fill.llm_prompt[i] = fill.response
        /\ \E i \in DOMAIN fill.llm_prompt : fill.llm_prompt[i] = fill.response
        /\ Slots(fill.llm_prompt) = {}
        /\ \A i \in DOMAIN fill.template \ Slots(fill.template) :
               fill.llm_prompt[i] = fill.template[i]

\* A three-piece template with its slot in the middle, filled with a
\* response that has braces of its own
C16_Witness ==
    /\ Filled
    /\ Len(fill.template) = 3 /\ Slots(fill.template) = {2}
    /\ fill.response = "a {sign} ahead"
    /\ fill.llm_prompt[2] = "a {sign} ahead"

\* C17: for a rewrite template without the slot the substitution does not
\* fail: the prompt is the template unchanged, and the language call is
\* made once with it.
C17_SlotlessTemplateUnchanged ==
    (Slots(fill.template) = {} /\ fill.pc # "idle") =>
        /\ Filled => fill.llm_prompt = fill.template
        /\ fill.pc = "done" =>
               /\ fill.llm_invocations = 1
               /\ \E env \in Env :
                      fill.llm_result =
                          process_with_llm(settings, fill.template, env)

\* A two-piece template without the slot went to the language call, which
\* answered
C17_Witness ==
    /\ fill.pc = "done"
    /\ Len(fill.template) = 2 /\ Slots(fill.template) = {}
    /\ fill.llm_prompt = fill.template
    /\ fill.llm_invocations = 1 /\ fill.llm_result.ok

\* The API key configured for a provider
ApiKey(s, provider) ==
    CASE provider = "openai" -> s.OPENAI_API_KEY
      [] provider = "google" -> s.GOOGLE_API_KEY
      [] provider = "huggingface" -> s.HUGGINGFACE_API_KEY

\* The selected provider is a supported one and has no API key
KeyMissing(provider) ==
    provider \in Providers /\ ApiKey(settings, provider) = None

\* C18: when the API key of the selected vision or language provider is
\* not configured, the gateway operation fails before any outbound network
\* call is made, and the attempt ends FAILED with that failure as its
\* error_message; after a vision failure of this kind no language call is
\* made.
C18_MissingKeyFailsBeforeCall ==
    \A r \in DOMAIN runs :
        /\ (runs[r].vlm_invocations > 0 /\ KeyMissing(settings.VISION_MODEL_PROVIDER)) =>
               /\ ~runs[r].vlm_result.ok
               /\ runs[r].vlm_result.requests = 0
               /\ runs[r].llm_invocations = 0
               /\ runs[r].obj.status = FAILED
               /\ runs[r].obj.error_message = runs[r].vlm_result.value
               /\ Returned(r) => db[runs[r].id].status = FAILED
        /\ (runs[r].llm_invocations > 0 /\ KeyMissing(settings.LLM_PROVIDER)) =>
               /\ ~runs[r].llm_result.ok
               /\ runs[r].llm_result.requests = 0
               /\ runs[r].obj.status = FAILED
               /\ runs[r].obj.error_message = runs[r].llm_result.value
               /\ Returned(r) => db[runs[r].id].status = FAILED

\* A returned attempt whose vision provider, openai, had no API key
C18_Witness ==
    \E r \in DOMAIN runs :
        /\ settings.VISION_MODEL_PROVIDER = "openai"
        /\ settings.OPENAI_API_KEY = None
        /\ runs[r].vlm_invocations = 1 /\ runs[r].vlm_result.requests = 0
        /\ Returned(r)
        /\ db[runs[r].id].error_message = "OpenAI API key not configured"

\* The selected provider is a supported one and has an API key
KeyPresent(provider) ==
    provider \in Providers /\ ApiKey(settings, provider) # None

C20_UnreadableImageFails ==
    [][\A r \in DOMAIN runs :
          ProcessWithVlm(r, "unreadable") =>
              /\ runs'[r].obj.status = FAILED
              /\ runs'[r].obj.error_message # None
              /\ runs'[r].pc = "commit"
              /\ runs'[r].llm_invocations = 0]_vars

\* The text s has the text w somewhere in it
Contains(s, w) ==
    \E i \in 1..(Len(s) - Len(w) + 1) : SubSeq(s, i, i + Len(w) - 1) = w

\* The message tells its reader that a timeout occurred
MentionsTimeout(msg) ==
    \E w \in {"timeout", "Timeout", "timed out", "Timed out"} : Contains(msg, w)

\* C21: a vision call that exceeds its per-call timeout ends the run's
\* vision step with the attempt FAILED, and the attempt's error_message
\* says that a timeout occurred.
C21_TimeoutMessageSaysTimeout ==
    [][\A r \in DOMAIN runs :
          (ProcessWithVlm(r, "timeout") /\ runs'[r].vlm_result.requests = 1) =>
              /\ runs'[r].pc = "commit"
              /\ runs'[r].obj.status = FAILED
              /\ MentionsTimeout(runs'[r].obj.error_message)]_vars

\* The record has the placeholder confidence exactly when it is COMPLETED,
\* and no confidence otherwise
PlaceholderIffCompleted(rec) ==
    /\ rec.confidence_score \in {None, "0.9"}
    /\ (rec.confidence_score = "0.9") <=> (rec.status = COMPLETED)

\* C22: confidence_score is the placeholder 0.9 exactly when the attempt
\* is COMPLETED; a FAILED attempt, in memory or stored, has no
\* confidence_score.
C22_ConfidenceIffCompleted ==
    /\ \A r \in DOMAIN runs : PlaceholderIffCompleted(runs[r].obj)
    /\ \A id \in DOMAIN db : PlaceholderIffCompleted(db[id])

\* A stored COMPLETED attempt with the placeholder next to a stored FAILED
\* attempt without a confidence_score
C22_Witness ==
    \E i, j \in DOMAIN db :
        /\ db[i].status = COMPLETED /\ db[i].confidence_score = "0.9"
        /\ db[j].status = FAILED /\ db[j].confidence_score = None

\* The modes the specialized endpoints hand to process_image
SpecializedEndpointModes == SpecializedModes \ {IMAGE_COMPARISON}

\* ProcessingMode.X.value for the specialized modes
Value(mode) ==
    CASE mode = CURRENCY_RECOGNITION -> "currency_recognition"
      [] mode = COLOR_ANALYSIS -> "color_analysis"
      [] mode = OBJECT_RECOGNITION -> "object_recognition"
      [] mode = FACE_RECOGNITION -> "face_recognition"
      [] mode = PRODUCT_IDENTIFICATION -> "product_identification"
      [] mode = HAZARD_DETECTION -> "hazard_detection"
      [] mode = TRANSPORT_INFORMATION -> "transport_information"
      [] mode = MEDICINE_IDENTIFICATION -> "medicine_identification"
      [] mode = EMOTIONAL_ANALYSIS -> "emotional_analysis"
      [] mode = IMAGE_COMPARISON -> "image_comparison"
      [] mode = DOCUMENT_SUMMARIZATION -> "document_summarization"
      [] mode = AUDIO_DESCRIPTION -> "audio_description"

\* C23: for each specialized endpoint, when no model call of the run
\* fails, process_image has sent the vision prompt registered for the
\* endpoint's mode and hands back a COMPLETED attempt whose final_output
\* the endpoint can return as its description.
C23_SpecializedEndpointCompletes ==
    \A r \in DOMAIN runs :
        (/\ runs[r].path = "upload"
         /\ runs[r].obj.mode \in SpecializedEndpointModes
         /\ Returned(r)
         /\ ~VlmFailed(r) /\ ~LlmFailed(r)) =>
            /\ runs[r].vlm_prompt = prompt_templates[Value(runs[r].obj.mode)].vlm
            /\ runs[r].obj.status = COMPLETED
            /\ runs[r].obj.final_output # None

\* The record has none of the fields the model calls fill in
NoModelOutput(rec) ==
    /\ rec.vlm_provider = None /\ rec.vlm_model = None
    /\ rec.vlm_response = None /\ rec.vlm_processing_time = None
    /\ rec.llm_provider = None /\ rec.llm_model = None
    /\ rec.llm_response = None /\ rec.llm_processing_time = None
    /\ rec.final_output = None

\* C27: when the vision call fails, for whatever reason, the language
\* call is never made and the attempt is FAILED with vlm_provider,
\* vlm_model, vlm_response, vlm_processing_time, every llm_ field and
\* final_output unset, in memory and in the stored row.
C27_VisionFailureLeavesFieldsUnset ==
    \A r \in DOMAIN runs :
        VlmFailed(r) =>
            /\ runs[r].llm_invocations = 0
            /\ runs[r].pc # "llm"
            /\ runs[r].obj.status = FAILED
            /\ NoModelOutput(runs[r].obj)
            /\ NoModelOutput(db[runs[r].id])
            /\ Returned(r) => db[runs[r].id].status = FAILED

\* A returned attempt whose vision provider name is not supported
C27_Witness ==
    \E r \in DOMAIN runs :
        /\ settings.VISION_MODEL_PROVIDER = Unsupported
        /\ VlmFailed(r) /\ Returned(r)
        /\ db[runs[r].id].status = FAILED
        /\ db[runs[r].id].vlm_provider = None

\* The vision prompt registered for a mode other than custom
RegisteredVlmPrompt(mode) ==
    IF mode \in StandardModes
    THEN prompt_templates[mode].vlm
    ELSE prompt_templates[Value(mode)].vlm

\* C28: once the prompt selection of a run is over, the vision prompt is
\* the caller's custom_prompt when the mode is CUSTOM and custom_prompt is
\* non-empty; in every other mode a supplied custom_prompt is ignored and
\* the vision prompt is the one registered for the mode; in both cases
\* prompt_template equals the vision prompt.
C28_VisionPromptSelection ==
    \A r \in DOMAIN runs :
        (Inserted(r) /\ runs[r].pc # "select") =>
            /\ (runs[r].obj.mode = CUSTOM /\ Truthy(runs[r].custom_prompt)) =>
                   /\ runs[r].vlm_prompt = runs[r].custom_prompt
                   /\ runs[r].obj.prompt_template = runs[r].custom_prompt
            /\ runs[r].obj.mode # CUSTOM =>
                   /\ runs[r].vlm_prompt = RegisteredVlmPrompt(runs[r].obj.mode)
                   /\ runs[r].vlm_prompt # runs[r].custom_prompt
                   /\ runs[r].obj.prompt_template = runs[r].vlm_prompt

\* The requester owns the image or is an administrator
OwnerOrAdmin(current_user, image_id) ==
    OwnerOf(image_id) = current_user.id \/ current_user.role = ADMIN

\* A call on an existing image is answered 403 exactly when the requester
\* is neither owner nor administrator, and a 403 changes nothing
AccessRule(current_user, image_id) ==
    /\ response'.status = 403 <=> ~OwnerOrAdmin(current_user, image_id)
    /\ response'.status = 403 =>
           UNCHANGED <<images, files, results, feedback, checked, saved>>

\* C24: each image-scoped operation (process_existing_image,
\* get_processing_result, create_feedback, get_image, update_image,
\* delete_image) on an existing image proceeds exactly when the requester
\* owns the image or is an administrator; otherwise it answers 403 and
\* changes no record and no file.
C24_OwnerOrAdminProceeds ==
    [][
        /\ \A u \in Users, id \in ImageIds :
            ImageById(id) # {} =>
               /\ (\E failure \in Failures :
                      process_existing_image_request(u, id, failure))
                     => AccessRule(u, id)
               /\ get_image(u, id) => AccessRule(u, id)
               /\ (\E commit_ok \in BOOLEAN : update_image(u, id, commit_ok))
                     => AccessRule(u, id)
               /\ (\E file_deleted \in BOOLEAN, commit_ok \in BOOLEAN :
                      delete_image(u, id, file_deleted, commit_ok))
                     => AccessRule(u, id)
        /\ \A u \in Users, id \in ResultIds :
            ResultById(id) # {} =>
               /\ get_processing_result(u, id) => AccessRule(u, ImageOf(id))
               /\ create_feedback_check(u, id) => AccessRule(u, ImageOf(id))]_vars

\* C25: after any interleaving of create_feedback requests there is at
\* most one Feedback row per (processing_result_id, user_id), and a request
\* for a pair that already has a row is answered 400 and adds nothing.
C25_OneFeedbackPerPair ==
    /\ [](\A result_id \in ResultIds, user_id \in UserIds :
             feedback[result_id][user_id] <= 1)
    /\ [][\A u \in Users, id \in ResultIds :
             /\ create_feedback_check(u, id)
             /\ ResultRefusal(id, u) = 0
             /\ feedback[id][u.id] > 0
             => response'.status = 400 /\ UNCHANGED <<feedback, checked>>]_vars

\* C29: after any sequence of upload_image, process_image and delete_image,
\* part-way failures included, every Image row has its file in storage and
\* every stored file belongs to exactly one Image row.
C29_FilesMatchImages ==
    /\ \A img \in images : img.file_path \in files
    /\ \A file \in files :
          Cardinality({img \in images : img.file_path = file}) = 1

\* C30: a process_image call that fails at the file save or at the Image
\* insert answers 500 and leaves no ProcessingResult behind; a call that
\* returns normally has created exactly one Image row and exactly one
\* ProcessingResult row, which references that image.
C30_ProcessImageAllOrNothing ==
    [][\A u \in Users, failure \in Failures :
          upload_and_process_image(u, failure) =>
             /\ failure \in {"save", "image"} =>
                   response'.status = 500 /\ results' = results
             /\ response'.status = 200 =>
                   \E img \in images' \ images, res \in results' \ results :
                      /\ images' = images \cup {img}
                      /\ results' = results \cup {res}
                      /\ res.image_id = img.id]_vars

\* An upload-and-process call has returned normally and left an image with
\* its one attempt
C30_Witness ==
    /\ response = Respond("process_image", 200)
    /\ \E img \in images :
          Cardinality({res \in results : res.image_id = img.id}) = 1

\* The requests of a client that were forwarded at a time in [from, from + window)
Admitted(client_ip, from) ==
    {i \in DOMAIN forwarded[client_ip] :
        from <= forwarded[client_ip][i] /\ forwarded[client_ip][i] < from + window}

\* C26: per client IP at most limit forwarded requests have admission
\* times within any span of window seconds; a request that finds limit
\* admitted timestamps younger than window is answered 429, is not
\* forwarded and adds no timestamp; cleanup removes no timestamp younger
\* than window.
C26_RateLimitHolds ==
    /\ [](\A client_ip \in Clients, from \in 0..MaxTime :
             Cardinality(Admitted(client_ip, from)) <= limit)
    /\ [][\A client_ip \in Clients :
             call(client_ip) /\ Len(Recent(Timestamps(client_ip), now)) >= limit
             => /\ answer' = 429
                /\ forwarded' = forwarded
                /\ Timestamps(client_ip)' = Recent(Timestamps(client_ip), now)]_vars
    /\ [][cleanup_old_requests =>
             \A client_ip \in Clients :
                Recent(Timestamps(client_ip)', now) = Recent(Timestamps(client_ip), now)]_vars

\* A client that was admitted more than limit times over several windows
\* has just been rejected
C26_Witness ==
    /\ answer = 429
    /\ \E client_ip \in Clients :
          /\ Len(forwarded[client_ip]) > limit
          /\ Len(Recent(Timestamps(client_ip), now)) = limit

====
